---------------------------- MODULE Spec2Model ----------------------------
(***************************************************************************)
(* WarpX: the PEC field boundary passes (Source/BoundaryConditions/        *)
(* WarpX_PEC.cpp) and the space-charge field initialisation                *)
(* (Source/Initialization/InitSpaceChargeField.cpp).                       *)
(*                                                                         *)
(* The boundary passes are modelled for the two-axis (WARPX_DIM_XZ) build: *)
(* an IntVect is a pair <<i, j>> of an x and a z index, and the three      *)
(* field components x, y, z carry the indices 0, 1, 2.  The per-cell rule  *)
(* PEC::SetEfieldOnPEC / PEC::SetBfieldOnPEC lives in WarpX_PEC.H, which   *)
(* is not among the source files; it is written down here from section 4.1 *)
(* of the specification.                                                   *)
(*                                                                         *)
(* Three specifications share the variables: SpecPEC runs the boundary     *)
(* passes as a whole, SpecSC runs InitSpaceChargeField on several          *)
(* processes, SpecCells runs one pass kernel invocation by kernel          *)
(* invocation.                                                             *)
(*                                                                         *)
(* Real numbers are modelled by integers.  All arithmetic of the modelled  *)
(* code is polynomial, so it is exact on integers; floating point rounding *)
(* is not modelled.                                                        *)
(***************************************************************************)
EXTENDS Integers, Sequences, FiniteSets, TLC

(***************************************************************************)
(* Bounds of the model.                                                    *)
(***************************************************************************)
\* widest particle-gather guard width handed to a boundary pass
MaxGuard == 1
\* largest number of data channels (nComp) of a field grid
MaxComp == 2
\* number of successive applications of one boundary pass that are followed
MaxPasses == 2

(***************************************************************************)
(* Geometry of the boundary passes.                                        *)
(***************************************************************************)
AMREX_SPACEDIM == 2
Dims == 1..AMREX_SPACEDIM
Comps == 0..2
\* the field component normal to axis idim: x for the first axis, z for the
\* second one (the two simulated axes are x and z)
AxisComp(idim) == IF idim = 1 THEN 0 ELSE 2

\* WarpX::RefRatio(lev-1), the same along every axis
RefRatio == 2
\* cells per axis of the level-0 domain; wider than every guard width
NCell0 == MaxGuard + 1
Levels == 0..1
PatchTypes == {"fine", "coarse"}
FieldBoundaryTypes == {"PEC", "PML", "Periodic"}

\* a box is a record of two IntVects, as amrex::Box (smallEnd, bigEnd)
Coarsen(box, ratio) ==
    [lo |-> <<box.lo[1] \div ratio, box.lo[2] \div ratio>>,
     hi |-> <<box.hi[1] \div ratio, box.hi[2] \div ratio>>]

\* warpx.Geom(lev).Domain()
GeomDomain(l) ==
    LET n == IF l = 0 THEN NCell0 ELSE NCell0 * RefRatio
    IN  [lo |-> <<0, 0>>, hi |-> <<n - 1, n - 1>>]

\* the domain box of a pass: coarsened for a coarse patch
domain_box(l, p) ==
    IF p = "coarse"
    THEN Coarsen(GeomDomain(l), IF l > 0 THEN RefRatio ELSE 1)
    ELSE GeomDomain(l)

domain_lo_bigEnd(l, p) == domain_box(l, p).hi

domain_lo(l, p) == domain_box(l, p).lo

domain_hi_smallEnd(l, p) == domain_box(l, p).lo

domain_hi(l, p) == domain_box(l, p).hi

\* The cell-centred valid box of the one grid block of the MultiFab handed
\* to a pass.  Level 0 is covered whole; the level-1 fine patch covers the
\* low part of the level-1 domain and so touches only the low boundaries;
\* its coarse patch is the same box coarsened.
ValidBox(l, p) ==
    LET fine == [lo |-> <<0, 0>>,
                 hi |-> <<RefRatio * (NCell0 - 1) - 1, RefRatio * (NCell0 - 1) - 1>>]
    IN  IF l = 0 THEN GeomDomain(0)
        ELSE IF p = "coarse" THEN Coarsen(fine, RefRatio) ELSE fine

\* a box converted to the staggering ix and grown by g cells on every side
ConvertGrow(box, ix, g) ==
    [lo |-> <<box.lo[1] - g, box.lo[2] - g>>,
     hi |-> <<box.hi[1] + ix[1] + g, box.hi[2] + ix[2] + g>>]

\* the index vectors of a box
BoxCells(box) ==
    { <<i, j>> : i \in box.lo[1]..box.hi[1], j \in box.lo[2]..box.hi[2] }

Contains(box, iv) ==
    /\ box.lo[1] <= iv[1] /\ iv[1] <= box.hi[1]
    /\ box.lo[2] <= iv[2] /\ iv[2] <= box.hi[2]

\* the cells a grid block allocates: valid cells and MaxGuard guard cells
FabCells(l, p, ix) == BoxCells(ConvertGrow(ValidBox(l, p), ix, MaxGuard))

tilebox_noguard(l, p, ix, g) == ConvertGrow(ValidBox(l, p), ix, 0)

\* mfi.tilebox(ix, ng), taken over all tiles of the block
tilebox(l, p, ix, g) == ConvertGrow(ValidBox(l, p), ix, g)

\* Efield[c]->ixType().toIntVect(), Bfield[c]->ixType().toIntVect()
YeeE == [c \in Comps |-> IF c = 0 THEN <<0, 1>> ELSE IF c = 1 THEN <<1, 1>> ELSE <<1, 0>>]
YeeB == [c \in Comps |-> IF c = 0 THEN <<1, 0>> ELSE IF c = 1 THEN <<0, 0>> ELSE <<0, 1>>]
AllNodal == [c \in Comps |-> <<1, 1>>]
GridTypes == {"yee", "nodal"}
E_ixType(gt) == IF gt = "yee" THEN YeeE ELSE AllNodal
B_ixType(gt) == IF gt = "yee" THEN YeeB ELSE AllNodal

\* the initial grid contents that are tried
Seeds == {1, 2}
\* contents of a grid before any pass: positive everywhere, so that a
\* zeroed value and a sign flip both show
InitVal(s, c, n, iv) == 1 + ((s * iv[1] + (s + 2) * iv[2] + 2 * c + 3 * n) % 7)
InitField(s, l, p, ixs, nc) ==
    [c \in Comps |-> [n \in 0..(nc - 1) |->
        [iv \in FabCells(l, p, ixs[c]) |-> InitVal(s, c, n, iv)]]]

VARIABLES
    field_boundary_lo,  \* WarpX::field_boundary_lo, per axis
    field_boundary_hi,  \* WarpX::field_boundary_hi, per axis
    lev,                \* argument lev of a boundary pass; loop variable lev of computeE
    patch_type,         \* argument patch_type of a boundary pass
    split_pml_field,    \* argument split_pml_field of ApplyPECtoEfield
    ng_fieldgather,     \* warpx.get_ng_fieldgather(), the same along every axis
    grid_type,          \* staggering of the field grids
    nComp,              \* number of data channels of every grid: 1, more for split PML fields
    seed,               \* which initial contents the grids had
    Efield,             \* the three E grids: component -> channel -> cell -> value
    Bfield,             \* the three B grids
    passesE,            \* completed ApplyPECtoEfield passes
    passesB             \* completed ApplyPECtoBfield passes

pecVars == <<field_boundary_lo, field_boundary_hi, lev, patch_type, split_pml_field,
             ng_fieldgather, grid_type, nComp, seed, Efield, Bfield, passesE, passesB>>
pecConfig == <<field_boundary_lo, field_boundary_hi, lev, patch_type, split_pml_field,
               ng_fieldgather, grid_type, nComp, seed>>

(***************************************************************************)
(* State of the space-charge initialisation (three-axis build).  Every     *)
(* process (MPI rank) runs InitSpaceChargeField on the grid blocks it      *)
(* owns: one block per level.                                              *)
(***************************************************************************)
VARIABLES
    geometry,       \* "3D", or "RZ" (WARPX_DIM_RZ defined)
    max_level,      \* finest level
    stagger,        \* staggering of Efield_fp (Ex_nodal_flag, ...)
    meanVelocity,   \* what pc.meanParticleVelocity(local = false) returns
    solverSeed,     \* which potential the multigrid solve produces
    eseed,          \* which contents Efield_fp had before the call
    pc,             \* per process: how far InitSpaceChargeField has come
    rho,            \* per process: state of the charge grids
    phi,            \* per process: the potential grids, level -> node -> value
    beta,           \* per process: the local beta of InitSpaceChargeField
    Efield_fp       \* per process: level -> component -> cell -> value

scVars == <<geometry, max_level, stagger, meanVelocity, solverSeed, eseed,
            pc, rho, phi, beta, Efield_fp>>
scConfig == <<geometry, max_level, stagger, meanVelocity, solverSeed, eseed>>

(***************************************************************************)
(* State of the execution of one pass cell by cell: the per-cell kernels   *)
(* of a ParallelFor are run by concurrent threads, each taking the indices *)
(* of its share one after the other.                                       *)
(***************************************************************************)
VARIABLES
    kernel,     \* the pass that is executed cell by cell, "none" otherwise
    schedule,   \* how the indices are dealt to the threads, and in which order
    done,       \* per thread: the number of kernel invocations it has completed
    outside     \* the value found at the memory outside the potential array

cellVars == <<kernel, schedule, done, outside>>

vars == <<pecVars, scVars, cellVars>>

\* the variables of the part of the program a specification leaves out
IdlePEC ==
    /\ field_boundary_lo = <<>> /\ field_boundary_hi = <<>>
    /\ lev = 0 /\ patch_type = "fine" /\ split_pml_field = FALSE
    /\ ng_fieldgather = 0 /\ grid_type = "yee" /\ nComp = 1 /\ seed = 1
    /\ Efield = <<>> /\ Bfield = <<>> /\ passesE = 0 /\ passesB = 0

IdleSC ==
    /\ geometry = "3D" /\ max_level = 0 /\ stagger = "yee"
    /\ meanVelocity = <<0, 0, 0>> /\ solverSeed = 1 /\ eseed = 1
    /\ pc = <<>> /\ rho = <<>> /\ phi = <<>> /\ beta = <<>> /\ Efield_fp = <<>>

IdleCells ==
    /\ kernel = "none" /\ schedule = <<>> /\ done = <<>> /\ outside = 0

(***************************************************************************)
(* PEC::isAnyBoundaryPEC                                                   *)
(***************************************************************************)
isAnyBoundaryPEC ==
    \E idim \in Dims :
        field_boundary_lo[idim] = "PEC" \/ field_boundary_hi[idim] = "PEC"

(***************************************************************************)
(* The per-cell rule (WarpX_PEC.H, from section 4.1 of the specification). *)
(***************************************************************************)
\* how many cells iv lies beyond the boundary of side iside (0 low, 1 high)
\* of axis idim; 0 on the boundary node, negative inside
CellCount(dlo, dhi, iv, nod, idim, iside) ==
    IF iside = 0 THEN dlo[idim] - iv[idim]
                 ELSE iv[idim] - (dhi[idim] + nod[idim])

IsPECSide(flo, fhi, idim, iside) ==
    IF iside = 0 THEN flo[idim] = "PEC" ELSE fhi[idim] = "PEC"

\* the sides (axis, side) of PEC boundaries beyond which iv lies
GuardSides(dlo, dhi, iv, nod, flo, fhi) ==
    { s \in Dims \X {0, 1} :
        IsPECSide(flo, fhi, s[1], s[2]) /\ CellCount(dlo, dhi, iv, nod, s[1], s[2]) > 0 }

\* the sides of PEC boundaries on whose boundary node iv lies
NodeSides(dlo, dhi, iv, nod, flo, fhi) ==
    { s \in Dims \X {0, 1} :
        /\ IsPECSide(flo, fhi, s[1], s[2])
        /\ CellCount(dlo, dhi, iv, nod, s[1], s[2]) = 0
        /\ nod[s[1]] = 1 }

\* the image of iv: mirrored along every axis on which iv is a guard cell of
\* a PEC boundary (guards); about the boundary node for a nodal component,
\* about the boundary face (half a cell outside the last cell centre)
\* otherwise
MirrorAlong(dlo, dhi, iv, nod, guards, idim) ==
    IF <<idim, 1>> \in guards
    THEN dhi[idim] + 1 - CellCount(dlo, dhi, iv, nod, idim, 1)
    ELSE IF <<idim, 0>> \in guards
    THEN dlo[idim] + CellCount(dlo, dhi, iv, nod, idim, 0) - (1 - nod[idim])
    ELSE iv[idim]

MirrorIndex(dlo, dhi, iv, nod, guards) ==
    << MirrorAlong(dlo, dhi, iv, nod, guards, 1),
       MirrorAlong(dlo, dhi, iv, nod, guards, 2) >>

\* (-1)^k
SignOf(k) == IF k % 2 = 0 THEN 1 ELSE -1

\* Electric field: a tangential component is zero on a PEC boundary node;
\* guard values are the image values, odd for tangential components and
\* even for the normal one.  The result is the new value of Ex(iv, n).
SetEfieldOnPEC(icomp, dlo, dhi, iv, n, Ex, nod, flo, fhi) ==
    LET guards == GuardSides(dlo, dhi, iv, nod, flo, fhi)
        OnPECBoundary ==
            \E s \in NodeSides(dlo, dhi, iv, nod, flo, fhi) : icomp # AxisComp(s[1])
        sign == SignOf(Cardinality({ s \in guards : icomp # AxisComp(s[1]) }))
    IN  IF OnPECBoundary THEN 0
        ELSE IF guards # {}
        THEN sign * Ex[n][MirrorIndex(dlo, dhi, iv, nod, guards)]
        ELSE Ex[n][iv]

\* Magnetic field: the normal component is zero on a PEC boundary node;
\* guard values are the image values, odd for tangential components and
\* even for the normal one (section 4.1).
SetBfieldOnPEC(icomp, dlo, dhi, iv, n, Bx, nod, flo, fhi) ==
    LET guards == GuardSides(dlo, dhi, iv, nod, flo, fhi)
        OnPECBoundary ==
            \E s \in NodeSides(dlo, dhi, iv, nod, flo, fhi) : icomp = AxisComp(s[1])
        sign == SignOf(Cardinality({ s \in guards : icomp # AxisComp(s[1]) }))
    IN  IF OnPECBoundary THEN 0
        ELSE IF guards # {}
        THEN sign * Bx[n][MirrorIndex(dlo, dhi, iv, nod, guards)]
        ELSE Bx[n][iv]

(***************************************************************************)
(* PEC::ApplyPECtoEfield and PEC::ApplyPECtoBfield                         *)
(***************************************************************************)
fbndry_lo_short == [idim \in 1..3 |->
    IF idim < AMREX_SPACEDIM THEN field_boundary_lo[idim] ELSE "PEC"]

\* the local copy of the boundary table; entries beyond AMREX_SPACEDIM are
\* never written and never read
fbndry_lo == [idim \in 1..3 |->
    IF idim <= AMREX_SPACEDIM THEN field_boundary_lo[idim] ELSE "unset"]

fbndry_hi_fromlo == [idim \in 1..3 |->
    IF idim <= AMREX_SPACEDIM THEN field_boundary_lo[idim] ELSE "unset"]

fbndry_hi == [idim \in 1..3 |->
    IF idim <= AMREX_SPACEDIM THEN field_boundary_hi[idim] ELSE "unset"]

\* the guard width of the index range of an E pass
ng_Epass == IF split_pml_field THEN 0 ELSE ng_fieldgather

\* the grids after one E pass over the grids F: the three ParallelFor
\* kernels over the boxes tex, tey, tez and the channels of each grid
EfieldAfterPass(F) ==
    LET dlo == domain_lo(lev, patch_type)
        dhi == domain_hi(lev, patch_type)
        flo == fbndry_lo
        fhi == fbndry_hi
        nodal == E_ixType(grid_type)
        te == [c \in Comps |-> tilebox(lev, patch_type, nodal[c], ng_Epass)]
    IN  [c \in Comps |-> [n \in 0..(nComp - 1) |->
            [iv \in DOMAIN F[c][n] |->
                IF Contains(te[c], iv)
                THEN SetEfieldOnPEC(c, dlo, dhi, iv, n, F[c], nodal[c], flo, fhi)
                ELSE F[c][n][iv]]]]

\* the grids after one B pass over the grids F
BfieldAfterPass(F) ==
    LET dlo == domain_lo(lev, patch_type)
        dhi == domain_hi(lev, patch_type)
        flo == fbndry_lo
        fhi == fbndry_hi
        nodal == B_ixType(grid_type)
        tb == [c \in Comps |-> tilebox(lev, patch_type, nodal[c], ng_fieldgather)]
    IN  [c \in Comps |-> [n \in 0..(nComp - 1) |->
            [iv \in DOMAIN F[c][n] |->
                IF Contains(tb[c], iv)
                THEN SetBfieldOnPEC(c, dlo, dhi, iv, n, F[c], nodal[c], flo, fhi)
                ELSE F[c][n][iv]]]]

ApplyPECtoEfield ==
    /\ passesE < MaxPasses
    /\ Efield' = EfieldAfterPass(Efield)
    /\ passesE' = passesE + 1
    /\ UNCHANGED <<pecConfig, Bfield, passesB, scVars, cellVars>>

ApplyPECtoBfield ==
    /\ passesB < MaxPasses
    /\ Bfield' = BfieldAfterPass(Bfield)
    /\ passesB' = passesB + 1
    /\ UNCHANGED <<pecConfig, Efield, passesE, scVars, cellVars>>

\* the boundary tables: a periodic axis is periodic on both sides
AxisBoundaries ==
    { <<"PEC", "PEC">>, <<"PEC", "PML">>, <<"PML", "PEC">>, <<"PML", "PML">>,
      <<"Periodic", "Periodic">> }

InitPEC ==
    /\ \E bx \in AxisBoundaries, bz \in AxisBoundaries :
          /\ field_boundary_lo = <<bx[1], bz[1]>>
          /\ field_boundary_hi = <<bx[2], bz[2]>>
    /\ lev \in Levels
    /\ patch_type \in PatchTypes
    /\ split_pml_field \in BOOLEAN
    /\ ng_fieldgather \in 0..MaxGuard
    /\ grid_type \in GridTypes
    /\ nComp = (IF split_pml_field THEN MaxComp ELSE 1)
    /\ seed \in Seeds
    /\ Efield = InitField(seed, lev, patch_type, E_ixType(grid_type), nComp)
    /\ Bfield = InitField(seed, lev, patch_type, B_ixType(grid_type), nComp)
    /\ passesE = 0
    /\ passesB = 0
    /\ IdleSC
    /\ IdleCells

NextPEC == ApplyPECtoEfield \/ ApplyPECtoBfield

SpecPEC == InitPEC /\ [][NextPEC]_vars

(***************************************************************************)
(* Properties of the boundary passes.                                      *)
(***************************************************************************)
BoundaryType(a, side) ==
    IF side = 0 THEN field_boundary_lo[a] ELSE field_boundary_hi[a]

\* index along axis a of the boundary node of a side of the domain
BoundaryNode(a, side) ==
    IF side = 0 THEN domain_lo(lev, patch_type)[a]
                ELSE domain_hi(lev, patch_type)[a] + 1

\* the cells of a grid of staggering ix that lie in the valid range or within
\* guard width g of it
Processed(ix, g) == BoxCells(ConvertGrow(ValidBox(lev, patch_type), ix, g))

\* C1: once a pass has run, every processed cell on the boundary node of a
\* PEC side of axis a holds 0 in each tangential E component (c # a) and in
\* the normal B component (c = a) that is nodal along a, in every channel.
C1_ZeroOnPECNode ==
    \A a \in Dims, side \in {0, 1} :
        BoundaryType(a, side) = "PEC" =>
            \A c \in Comps, n \in 0..(nComp - 1) :
                /\ (passesE >= 1 /\ c # AxisComp(a) /\ E_ixType(grid_type)[c][a] = 1) =>
                       \A iv \in Processed(E_ixType(grid_type)[c], ng_Epass) :
                           iv[a] = BoundaryNode(a, side) => Efield[c][n][iv] = 0
                /\ (passesB >= 1 /\ c = AxisComp(a) /\ B_ixType(grid_type)[c][a] = 1) =>
                       \A iv \in Processed(B_ixType(grid_type)[c], ng_fieldgather) :
                           iv[a] = BoundaryNode(a, side) => Bfield[c][n][iv] = 0

\* both passes have run and zeroed a tangential E value and a normal B
\* value on the node of a high PEC boundary
C1_Witness ==
    /\ passesE >= 1 /\ passesB >= 1
    /\ \E a \in Dims :
          /\ field_boundary_hi[a] = "PEC"
          /\ \E c \in Comps :
                /\ c # AxisComp(a) /\ E_ixType(grid_type)[c][a] = 1
                /\ \E iv \in Processed(E_ixType(grid_type)[c], ng_Epass) :
                      /\ iv[a] = BoundaryNode(a, 1)
                      /\ Efield[c][0][iv] = 0
                      /\ InitVal(seed, c, 0, iv) # 0
          /\ B_ixType(grid_type)[AxisComp(a)][a] = 1
          /\ \E iv \in Processed(B_ixType(grid_type)[AxisComp(a)], ng_fieldgather) :
                /\ iv[a] = BoundaryNode(a, 1)
                /\ Bfield[AxisComp(a)][0][iv] = 0

\* offset of iv beyond the boundary of a side of axis a, for staggering nod
ImageOffset(iv, a, side, nod) ==
    IF side = 0 THEN domain_lo(lev, patch_type)[a] - iv[a]
                ELSE iv[a] - (domain_hi(lev, patch_type)[a] + nod[a])

\* iv mirrored along axis a only: about the boundary node when nodal along
\* a, about the boundary face otherwise
AxisMirror(iv, a, side, nod) ==
    LET d == ImageOffset(iv, a, side, nod)
        m == IF side = 0 THEN domain_lo(lev, patch_type)[a] + d - (1 - nod[a])
                         ELSE domain_hi(lev, patch_type)[a] + 1 - d
    IN  [iv EXCEPT ![a] = m]

ReflectionSign(c, a) == IF c # AxisComp(a) THEN -1 ELSE 1

GuardsReflect(F, ixs, g) ==
    \A a \in Dims, side \in {0, 1} :
        BoundaryType(a, side) = "PEC" =>
            \A c \in Comps, n \in 0..(nComp - 1) :
                \A iv \in Processed(ixs[c], g) :
                    ImageOffset(iv, a, side, ixs[c]) > 0 =>
                        F[c][n][iv] =
                            ReflectionSign(c, a) * F[c][n][AxisMirror(iv, a, side, ixs[c])]

\* C2: once a pass has run, the value in every processed guard cell beyond a
\* PEC boundary of axis a is the value at the cell mirrored along a, negated
\* for a component tangential to a and unchanged for the normal component;
\* the mirror is the boundary node for a component nodal along a and the
\* boundary face, half a cell outside the last cell centre, otherwise.
C2_GuardReflection ==
    /\ passesE >= 1 => GuardsReflect(Efield, E_ixType(grid_type), ng_Epass)
    /\ passesB >= 1 => GuardsReflect(Bfield, B_ixType(grid_type), ng_fieldgather)

\* a guard cell in the corner of two PEC boundaries holds a value that
\* differs from what it held before the pass, for E and for B
C2_Witness ==
    /\ passesE >= 1 /\ passesB >= 1
    /\ ng_Epass >= 1
    /\ field_boundary_lo = <<"PEC", "PEC">>
    /\ \E c \in Comps :
          LET iv == <<domain_lo(lev, patch_type)[1] - 1, domain_lo(lev, patch_type)[2] - 1>>
          IN  /\ Efield[c][0][iv] # InitVal(seed, c, 0, iv)
              /\ Efield[c][0][iv] # 0
              /\ Bfield[c][0][iv] # InitVal(seed, c, 0, iv)
              /\ Bfield[c][0][iv] # 0

\* C3: a boundary pass that follows a pass of the same kind with the same
\* arguments changes no value of any grid.
C3_Idempotent ==
    [][ /\ (passesE >= 1 /\ passesE' = passesE + 1) => Efield' = Efield
        /\ (passesB >= 1 /\ passesB' = passesB + 1) => Bfield' = Bfield ]_vars

\* two E passes and two B passes have run on grids that the first pass
\* changed in guard cells
C3_Witness ==
    /\ passesE = 2 /\ passesB = 2
    /\ isAnyBoundaryPEC
    /\ ng_Epass >= 1
    /\ Efield # InitField(seed, lev, patch_type, E_ixType(grid_type), nComp)
    /\ Bfield # InitField(seed, lev, patch_type, B_ixType(grid_type), nComp)

\* C4: when no side of any axis is PEC, the passes leave every value of
\* every grid, valid and guard cells alike, as it was.
C4_NoPECNoChange ==
    ~isAnyBoundaryPEC =>
        /\ Efield = InitField(seed, lev, patch_type, E_ixType(grid_type), nComp)
        /\ Bfield = InitField(seed, lev, patch_type, B_ixType(grid_type), nComp)

\* both passes have run on a coarse patch of level 1 without any PEC side
C4_Witness ==
    /\ ~isAnyBoundaryPEC
    /\ passesE >= 1 /\ passesB >= 1
    /\ lev = 1 /\ patch_type = "coarse"
    /\ ng_fieldgather >= 1

(***************************************************************************)
(* Space-charge initialisation: InitSpaceChargeField, computePhi, computeE *)
(* in the three-axis build; an index is a triple <<i, j, k>>.  In a        *)
(* two-axis build InitSpaceChargeField.cpp does not compile (its #else     *)
(* branch of computeE uses inv_dy, which only the three-axis branch        *)
(* declares), so that branch has no behaviour to model.                    *)
(***************************************************************************)
\* number of processes
NRanks == 2
Ranks == 1..NRanks
\* largest max_level
MaxLevel == 1
\* cells per axis of a grid block
NCellSC == 2

\* stand-ins for PhysConst::c and 1/PhysConst::ep0
PhysConst_c == 3
InvEp0 == 2

\* Ex_nodal_flag, Ey_nodal_flag, Ez_nodal_flag
E_nodal_flag(st) ==
    IF st = "yee"
    THEN [c \in Comps |-> IF c = 0 THEN <<0, 1, 1>> ELSE IF c = 1 THEN <<1, 0, 1>> ELSE <<1, 1, 0>>]
    ELSE [c \in Comps |-> <<1, 1, 1>>]

\* mfi.tilebox(flag) of the one block of a level: the block's index range in
\* the staggering flag.  A level-1 block covers the low corner of the
\* level-1 domain, so it has the index range of the level-0 block.
tilebox3(flag) ==
    { <<i, j, k>> : i \in 0..(NCellSC - 1 + flag[1]),
                    j \in 0..(NCellSC - 1 + flag[2]),
                    k \in 0..(NCellSC - 1 + flag[3]) }

\* the nodes of a block: boxArray(lev).surroundingNodes(), no guard cells
NodeBox == tilebox3(<<1, 1, 1>>)

\* 1/dx of a level, per axis: Geom(lev).CellSize() halves from level to level
InvCellSize(l) ==
    LET r == IF l = 0 THEN 1 ELSE IF l = 1 THEN 2 ELSE 4
    IN  <<r, 2 * r, 3 * r>>

\* the mean velocities the particles may have: multiples of c, so that beta
\* is an integer vector
Betas == { <<0, 0, 0>>, <<1, 0, 0>>, <<0, 1, 2>>, <<1, -1, 1>>, <<2, 1, 0>> }
MeanVelocities == { <<PhysConst_c * b[1], PhysConst_c * b[2], PhysConst_c * b[3]>> : b \in Betas }

\* contents of Efield_fp before the call: all zero, or a pattern
InitE(es, r, l, c, cell) ==
    IF es = 0 THEN 0
    ELSE ((cell[1] + 2 * cell[2] + 3 * cell[3] + c + l + r) % 5) - 2
InitEfield(es, st, ml, r) ==
    [l \in 0..ml |-> [c \in Comps |->
        [cell \in tilebox3(E_nodal_flag(st)[c]) |-> InitE(es, r, l, c, cell)]]]

\* what mlmg.solve leaves in phi[lev] on process r (the solver is external)
SolverPhi(sd, r, l, node) ==
    ((sd * node[1] * node[1] + 2 * node[2] + node[3] * node[3] * (l + 1)
      + node[1] * node[2] * l + r) % 5) - 2

ESeeds == {0, 1}
SolverSeeds == {1, 2}
\* values a read outside an array may yield
JunkVals == {-2, 0, 4}

\* position of a process in InitSpaceChargeField, in program order
PcOrder == << "start", "allocated", "depositing", "deposited", "averaging",
              "averaged", "solving", "solved", "scaled", "done" >>
StepNo(p) == CHOOSE n \in 1..Len(PcOrder) : PcOrder[n] = p
AtOrPast(r, p) == pc[r] # "aborted" /\ StepNo(pc[r]) >= StepNo(p)

Begin_noabort(r) ==
    /\ pc[r] = "start"
    /\ rho' = [rho EXCEPT ![r] = "allocated"]
    /\ phi' = [phi EXCEPT ![r] = [l \in 0..max_level |-> [node \in NodeBox |-> 0]]]
    /\ pc' = [pc EXCEPT ![r] = "allocated"]
    /\ UNCHANGED <<scConfig, beta, Efield_fp, pecVars, cellVars>>

\* InitSpaceChargeField, lines 14-29: abort in RZ geometry; otherwise
\* allocate rho and phi on every level and set phi to zero
Begin(r) ==
    /\ pc[r] = "start"
    /\ IF geometry = "RZ"
       THEN /\ pc' = [pc EXCEPT ![r] = "aborted"]
            /\ UNCHANGED <<rho, phi>>
       ELSE /\ rho' = [rho EXCEPT ![r] = "allocated"]
            /\ phi' = [phi EXCEPT ![r] = [l \in 0..max_level |-> [node \in NodeBox |-> 0]]]
            /\ pc' = [pc EXCEPT ![r] = "allocated"]
    /\ UNCHANGED <<scConfig, beta, Efield_fp, pecVars, cellVars>>

\* pc.DepositCharge(rho, local = false, reset = true): a collective
\* reduction; a process enters it with its own contribution ...
DepositEnter(r) ==
    /\ pc[r] = "allocated"
    /\ pc' = [pc EXCEPT ![r] = "depositing"]
    /\ UNCHANGED <<scConfig, rho, phi, beta, Efield_fp, pecVars, cellVars>>

\* ... and returns from it once every process has entered
DepositLeave(r) ==
    /\ pc[r] = "depositing"
    /\ \A q \in Ranks : AtOrPast(q, "depositing")
    /\ rho' = [rho EXCEPT ![r] = "deposited"]
    /\ pc' = [pc EXCEPT ![r] = "deposited"]
    /\ UNCHANGED <<scConfig, phi, beta, Efield_fp, pecVars, cellVars>>

\* pc.meanParticleVelocity(local = false): a collective reduction
AverageEnter(r) ==
    /\ pc[r] = "deposited"
    /\ pc' = [pc EXCEPT ![r] = "averaging"]
    /\ UNCHANGED <<scConfig, rho, phi, beta, Efield_fp, pecVars, cellVars>>

\* the average returns on every process with the same vector, which
\* InitSpaceChargeField divides by PhysConst::c
AverageLeave(r) ==
    /\ pc[r] = "averaging"
    /\ \A q \in Ranks : AtOrPast(q, "averaging")
    /\ beta' = [beta EXCEPT ![r] = << meanVelocity[1] \div PhysConst_c,
                                      meanVelocity[2] \div PhysConst_c,
                                      meanVelocity[3] \div PhysConst_c >>]
    /\ pc' = [pc EXCEPT ![r] = "averaged"]
    /\ UNCHANGED <<scConfig, rho, phi, Efield_fp, pecVars, cellVars>>

\* computePhi, lines 67-97: set up the operator and enter mlmg.solve, a
\* collective operation over all levels
SolveEnter(r) ==
    /\ pc[r] = "averaged"
    /\ pc' = [pc EXCEPT ![r] = "solving"]
    /\ UNCHANGED <<scConfig, rho, phi, beta, Efield_fp, pecVars, cellVars>>

\* mlmg.solve returns once every process has entered it; phi holds the solution
SolveLeave(r) ==
    /\ pc[r] = "solving"
    /\ \A q \in Ranks : AtOrPast(q, "solving")
    /\ phi' = [phi EXCEPT ![r] = [l \in 0..max_level |->
                   [node \in NodeBox |-> SolverPhi(solverSeed, r, l, node)]]]
    /\ pc' = [pc EXCEPT ![r] = "solved"]
    /\ UNCHANGED <<scConfig, rho, beta, Efield_fp, pecVars, cellVars>>

\* computePhi, lines 100-102: phi[lev]->mult(-1./PhysConst::ep0) on every level
Normalize(r) ==
    /\ pc[r] = "solved"
    /\ phi' = [phi EXCEPT ![r] = [l \in 0..max_level |->
                   [node \in NodeBox |-> phi[r][l][node] * (0 - InvEp0)]]]
    /\ pc' = [pc EXCEPT ![r] = "scaled"]
    /\ UNCHANGED <<scConfig, rho, beta, Efield_fp, pecVars, cellVars>>

\* phi_arr(i,j,k): the value of a node of the array, any value outside it
\* (the array has no guard cells and the access is not checked)
phi_arr(P, junk, i, j, k) ==
    IF <<i, j, k>> \in DOMAIN P THEN P[<<i, j, k>>] ELSE junk

\* 0.5*x; the potential is an even number everywhere, so this is exact
Half(x) == x \div 2

\* the level whose potential the kernels of level l read: phi[0]->array(mfi)
phi_level(l) == 0

\* right-hand sides of the three kernels of computeE (lines 159-174)
ExIncrement(P, junk, b, inv, i, j, k) ==
      (b[1] * b[1] - 1) * inv[1] * (phi_arr(P, junk, i + 1, j, k) - phi_arr(P, junk, i, j, k))
    + b[1] * b[2] * inv[2] * Half(phi_arr(P, junk, i, j + 1, k) - phi_arr(P, junk, i, j - 1, k))
    + b[1] * b[3] * inv[3] * Half(phi_arr(P, junk, i, j, k + 1) - phi_arr(P, junk, i, j, k - 1))

EyIncrement(P, junk, b, inv, i, j, k) ==
      b[2] * b[1] * inv[1] * Half(phi_arr(P, junk, i + 1, j, k) - phi_arr(P, junk, i - 1, j, k))
    + (b[2] * b[2] - 1) * inv[2] * (phi_arr(P, junk, i, j + 1, k) - phi_arr(P, junk, i, j, k))
    + b[2] * b[3] * inv[3] * Half(phi_arr(P, junk, i, j, k + 1) - phi_arr(P, junk, i, j, k - 1))

EzIncrement(P, junk, b, inv, i, j, k) ==
      b[3] * b[1] * inv[1] * Half(phi_arr(P, junk, i + 1, j, k) - phi_arr(P, junk, i - 1, j, k))
    + b[3] * b[2] * inv[2] * Half(phi_arr(P, junk, i, j + 1, k) - phi_arr(P, junk, i, j - 1, k))
    + (b[2] * b[3] - 1) * inv[3] * (phi_arr(P, junk, i, j, k + 1) - phi_arr(P, junk, i, j, k))

Increment(c, P, junk, b, inv, cell) ==
    IF c = 0 THEN ExIncrement(P, junk, b, inv, cell[1], cell[2], cell[3])
    ELSE IF c = 1 THEN EyIncrement(P, junk, b, inv, cell[1], cell[2], cell[3])
    ELSE EzIncrement(P, junk, b, inv, cell[1], cell[2], cell[3])

\* computeE(E, phi, beta): the grids E after the call
computeE(E, P, b, junk) ==
    [l \in 0..max_level |->
        LET parr == P[phi_level(l)]
            inv == InvCellSize(l)
        IN  [c \in Comps |->
                [cell \in DOMAIN E[l][c] |->
                    IF cell \in tilebox3(E_nodal_flag(stagger)[c])
                    THEN E[l][c][cell] + Increment(c, parr, junk, b, inv, cell)
                    ELSE E[l][c][cell]]]]

ReconstructE_unscaled(r) ==
    /\ pc[r] \in {"solved", "scaled"}
    /\ \E junk \in JunkVals :
          Efield_fp' = [Efield_fp EXCEPT ![r] = computeE(Efield_fp[r], phi[r], beta[r], junk)]
    /\ pc' = [pc EXCEPT ![r] = "done"]
    /\ UNCHANGED <<scConfig, rho, phi, beta, pecVars, cellVars>>

\* InitSpaceChargeField, line 45: computeE(Efield_fp, phi, beta), then return
ReconstructE(r) ==
    /\ pc[r] = "scaled"
    /\ \E junk \in JunkVals :
          Efield_fp' = [Efield_fp EXCEPT ![r] = computeE(Efield_fp[r], phi[r], beta[r], junk)]
    /\ pc' = [pc EXCEPT ![r] = "done"]
    /\ UNCHANGED <<scConfig, rho, phi, beta, pecVars, cellVars>>

InitSC ==
    /\ geometry \in {"3D", "RZ"}
    /\ max_level \in 0..MaxLevel
    /\ stagger \in GridTypes
    /\ meanVelocity \in MeanVelocities
    /\ solverSeed \in SolverSeeds
    /\ eseed \in ESeeds
    /\ pc = [r \in Ranks |-> "start"]
    /\ rho = [r \in Ranks |-> "none"]
    /\ phi = [r \in Ranks |-> "none"]
    /\ beta = [r \in Ranks |-> "none"]
    /\ Efield_fp = [r \in Ranks |-> InitEfield(eseed, stagger, max_level, r)]
    /\ IdlePEC
    /\ IdleCells

NextSC ==
    \E r \in Ranks :
        \/ Begin(r)
        \/ DepositEnter(r)
        \/ DepositLeave(r)
        \/ AverageEnter(r)
        \/ AverageLeave(r)
        \/ SolveEnter(r)
        \/ SolveLeave(r)
        \/ Normalize(r)
        \/ ReconstructE(r)

SpecSC == InitSC /\ [][NextSC]_vars

(***************************************************************************)
(* Properties of the space-charge initialisation.                          *)
(***************************************************************************)
UnitVec(a) == [d \in 1..3 |-> IF d = a THEN 1 ELSE 0]
Shift(cell, a, n) == <<cell[1] + n * UnitVec(a)[1], cell[2] + n * UnitVec(a)[2],
                       cell[3] + n * UnitVec(a)[3]>>

\* the nodes of the potential that the update of component c at cell uses:
\* the forward pair along the component's axis, the two neighbours along
\* each other axis
Stencil(c, cell) ==
    {cell, Shift(cell, c + 1, 1)}
        \cup UNION { {Shift(cell, a, 1), Shift(cell, a, -1)} : a \in (1..3) \ {c + 1} }

\* the discretisation of -grad(phi) + beta (beta . grad) phi for component c
GradientIncrement(c, P, b, inv, cell) ==
    LET own == (b[c + 1] * b[c + 1] - 1) * inv[c + 1]
                   * (P[Shift(cell, c + 1, 1)] - P[cell])
        cross(a) == b[c + 1] * b[a] * inv[a]
                        * Half(P[Shift(cell, a, 1)] - P[Shift(cell, a, -1)])
        others == (1..3) \ {c + 1}
        a1 == CHOOSE a \in others : \A x \in others : a <= x
        a2 == CHOOSE a \in others : a # a1
    IN  own + cross(a1) + cross(a2)

\* C5: on the coarsest level, whose own potential computeE reads, computeE
\* adds to every E component c, at every cell whose stencil lies in the
\* potential grid, (beta_c^2 - 1) * (forward difference of phi along c) /
\* delta_c + the sum over the other axes a of beta_c * beta_a * 0.5 *
\* (centred difference of phi along a) / delta_a.
C5_GradientFormula ==
    \A r \in Ranks :
        pc[r] = "done" =>
            \A c \in Comps :
                \A cell \in tilebox3(E_nodal_flag(stagger)[c]) :
                    Stencil(c, cell) \subseteq NodeBox =>
                        Efield_fp[r][0][c][cell] =
                            InitE(eseed, r, 0, c, cell)
                              + GradientIncrement(c, phi[r][0], beta[r], InvCellSize(0), cell)

\* C6: with beta = 0 computeE adds to every E component of every level, at
\* every cell whose forward neighbour lies in the potential grid, exactly
\* -(phi at +1 minus phi at 0) / delta along the component's own axis, phi
\* being the potential of that level.
C6_ZeroDriftGradient ==
    \A r \in Ranks :
        (pc[r] = "done" /\ beta[r] = <<0, 0, 0>>) =>
            \A l \in 0..max_level, c \in Comps :
                \A cell \in tilebox3(E_nodal_flag(stagger)[c]) :
                    Shift(cell, c + 1, 1) \in NodeBox =>
                        Efield_fp[r][l][c][cell] - InitE(eseed, r, l, c, cell) =
                            (0 - 1) * InvCellSize(l)[c + 1]
                                * (phi[r][l][Shift(cell, c + 1, 1)] - phi[r][l][cell])

\* C7: in RZ geometry InitSpaceChargeField aborts first: no process gets
\* past the abort, nothing is allocated, deposited, solved or reconstructed,
\* and every E grid holds what it held before the call.
C7_AbortInRZ ==
    geometry = "RZ" =>
        \A r \in Ranks :
            /\ pc[r] \in {"start", "aborted"}
            /\ rho[r] = "none" /\ phi[r] = "none" /\ beta[r] = "none"
            /\ Efield_fp[r] = InitEfield(eseed, stagger, max_level, r)

\* every process has aborted, on a two-level run with non-zero fields
C7_Witness ==
    /\ geometry = "RZ"
    /\ \A r \in Ranks : pc[r] = "aborted"
    /\ max_level = 1 /\ eseed = 1

\* the stages of InitSpaceChargeField: 1 allocation, 2 charge deposition,
\* 3 mean-velocity average, 4 potential solve with its scaling, 5 E-field
\* reconstruction
StageStarted(r, k) ==
    AtOrPast(r, PcOrder[IF k = 1 THEN 2 ELSE IF k = 2 THEN 3 ELSE IF k = 3 THEN 5
                        ELSE IF k = 4 THEN 7 ELSE 10])
StageCompleted(r, k) ==
    AtOrPast(r, PcOrder[IF k = 1 THEN 2 ELSE IF k = 2 THEN 4 ELSE IF k = 3 THEN 6
                        ELSE IF k = 4 THEN 9 ELSE 10])

\* C8 as stated: no process starts a stage before every process has
\* completed the stage before it.
C8_StagesGloballyOrdered ==
    geometry = "3D" =>
        \A k \in 2..5 :
            (\E r \in Ranks : StageStarted(r, k)) =>
                \A q \in Ranks : StageCompleted(q, k - 1)

ScaledSolution(r) ==
    [l \in 0..max_level |->
        [node \in NodeBox |-> SolverPhi(solverSeed, r, l, node) * (0 - InvEp0)]]

\* C8 as amended: every process takes the steps of InitSpaceChargeField one
\* by one in program order; a process starts the potential solve only when
\* every process has completed the charge deposition and has entered the
\* mean-velocity average; a process has left the solve only when every
\* process has entered it; and the E grids of a process are as before the
\* call until its own solve and scaling are done, and are written only with
\* the scaled solution in its phi on every level.
C8_StagesOrdered ==
    /\ [][ \A r \in Ranks :
              pc'[r] # pc[r] =>
                  \/ pc[r] = "start" /\ pc'[r] = "aborted"
                  \/ pc[r] # "aborted" /\ pc'[r] # "aborted"
                       /\ StepNo(pc'[r]) = StepNo(pc[r]) + 1 ]_vars
    /\ [] ( geometry = "3D" =>
              \A r \in Ranks :
                  /\ StageStarted(r, 4) =>
                        \A q \in Ranks : StageCompleted(q, 2) /\ StageStarted(q, 3)
                  /\ AtOrPast(r, "solved") => \A q \in Ranks : StageStarted(q, 4)
                  /\ ~AtOrPast(r, "done") =>
                        Efield_fp[r] = InitEfield(eseed, stagger, max_level, r)
                  /\ AtOrPast(r, "scaled") => phi[r] = ScaledSolution(r)
                  /\ AtOrPast(r, "allocated") /\ ~AtOrPast(r, "solved") =>
                        phi[r] = [l \in 0..max_level |-> [node \in NodeBox |-> 0]] )

\* one process has reconstructed E on two levels from a non-zero potential
\* while another one is still scaling its potential
C8_Witness ==
    /\ geometry = "3D" /\ max_level = 1
    /\ \E r, q \in Ranks :
          /\ pc[r] = "done" /\ pc[q] = "solved"
          /\ Efield_fp[r] # InitEfield(eseed, stagger, max_level, r)

\* C10: the update of the E grids of level l uses the potential of level l:
\* the values added are the kernels' right-hand sides evaluated on phi[l].
C10_OwnLevelPotential ==
    \A r \in Ranks :
        pc[r] = "done" =>
            \A l \in 0..max_level, c \in Comps :
                \A cell \in tilebox3(E_nodal_flag(stagger)[c]) :
                    Stencil(c, cell) \subseteq NodeBox =>
                        Efield_fp[r][l][c][cell] =
                            InitE(eseed, r, l, c, cell)
                              + Increment(c, phi[r][l], 0, beta[r], InvCellSize(l), cell)

(***************************************************************************)
(* One pass executed cell by cell.  A pass hands three index boxes, one    *)
(* per field component, to amrex::ParallelFor, which runs the kernel of a  *)
(* component once for every index of its box (and every channel), on       *)
(* concurrent threads, in no particular order.  Here two threads share the *)
(* indices; each takes the indices of its share one after the other, and   *)
(* the steps of the two threads interleave freely.  Over the schedules     *)
(* every two kernel invocations of a pass run in either order.             *)
(***************************************************************************)
Threads == {1, 2}
\* the indices are dealt alternately and walked upwards, or dealt in two
\* contiguous halves and walked downwards: two invocations that fall to one
\* thread under one schedule fall to two threads, or to one thread in the
\* opposite order, under the other
Schedules == { [part |-> "striped", dir |-> "up"], [part |-> "blocked", dir |-> "down"] }

BoxLen(box, a) == box.hi[a] - box.lo[a] + 1
BoxSize(box) == BoxLen(box, 1) * BoxLen(box, 2)
\* the k-th index vector of a box, first axis fastest
BoxCell(box, k) ==
    << box.lo[1] + (k % BoxLen(box, 1)), box.lo[2] + (k \div BoxLen(box, 1)) >>

\* the boxes tex, tey, tez (tbx, tby, tbz) of a boundary pass
PassBoxes ==
    IF kernel = "ApplyPECtoEfield"
    THEN [c \in Comps |-> tilebox(lev, patch_type, E_ixType(grid_type)[c], ng_Epass)]
    ELSE [c \in Comps |-> tilebox(lev, patch_type, B_ixType(grid_type)[c], ng_fieldgather)]

\* extent of mfi.tilebox(flag) in computeE, and its k-th index
Extent3(flag) == << NCellSC + flag[1], NCellSC + flag[2], NCellSC + flag[3] >>
Cell3(flag, k) ==
    LET e == Extent3(flag)
    IN  << k % e[1], (k \div e[1]) % e[2], k \div (e[1] * e[2]) >>

\* number of kernel invocations of component c in the pass
Work(c) ==
    IF kernel = "computeE"
    THEN LET e == Extent3(E_nodal_flag(stagger)[c]) IN e[1] * e[2] * e[3]
    ELSE BoxSize(PassBoxes[c]) * nComp
Total == Work(0) + Work(1) + Work(2)

\* the component of the idx-th kernel invocation of the pass and its number
\* among the invocations of that component
Invocation(idx) ==
    IF idx < Work(0) THEN <<0, idx>>
    ELSE IF idx < Work(0) + Work(1) THEN <<1, idx - Work(0)>>
    ELSE <<2, idx - Work(0) - Work(1)>>

\* number of invocations dealt to thread t
Share(t) ==
    IF schedule.part = "striped"
    THEN (Total + 2 - t) \div 2
    ELSE IF t = 1 THEN Total \div 2 ELSE Total - (Total \div 2)

\* the invocation thread t runs as its (k+1)-th
IndexOf(t, k) ==
    LET j == IF schedule.dir = "up" THEN k ELSE Share(t) - 1 - k
    IN  IF schedule.part = "striped" THEN 2 * j + (t - 1)
        ELSE IF t = 1 THEN j ELSE (Total \div 2) + j

\* one invocation of the kernel of ApplyPECtoEfield (lines 77-117)
PECEfieldCell(t) ==
    /\ kernel = "ApplyPECtoEfield"
    /\ done[t] < Share(t)
    /\ LET w == Invocation(IndexOf(t, done[t]))
           c == w[1]
           box == PassBoxes[c]
           n == w[2] \div BoxSize(box)
           iv == BoxCell(box, w[2] % BoxSize(box))
       IN  Efield' = [Efield EXCEPT ![c][n][iv] =
               SetEfieldOnPEC(c, domain_lo(lev, patch_type), domain_hi(lev, patch_type),
                              iv, n, Efield[c], E_ixType(grid_type)[c], fbndry_lo, fbndry_hi)]
    /\ done' = [done EXCEPT ![t] = @ + 1]
    /\ UNCHANGED <<pecConfig, Bfield, passesE, passesB, scVars, kernel, schedule, outside>>

\* one invocation of the kernel of ApplyPECtoBfield (lines 169-209)
PECBfieldCell(t) ==
    /\ kernel = "ApplyPECtoBfield"
    /\ done[t] < Share(t)
    /\ LET w == Invocation(IndexOf(t, done[t]))
           c == w[1]
           box == PassBoxes[c]
           n == w[2] \div BoxSize(box)
           iv == BoxCell(box, w[2] % BoxSize(box))
       IN  Bfield' = [Bfield EXCEPT ![c][n][iv] =
               SetBfieldOnPEC(c, domain_lo(lev, patch_type), domain_hi(lev, patch_type),
                              iv, n, Bfield[c], B_ixType(grid_type)[c], fbndry_lo, fbndry_hi)]
    /\ done' = [done EXCEPT ![t] = @ + 1]
    /\ UNCHANGED <<pecConfig, Efield, passesE, passesB, scVars, kernel, schedule, outside>>

\* one invocation of a kernel of computeE (lines 157-176) on the first
\* process, in the iteration lev of the loop over the levels
computeECell(t) ==
    /\ kernel = "computeE"
    /\ done[t] < Share(t)
    /\ LET w == Invocation(IndexOf(t, done[t]))
           c == w[1]
           cell == Cell3(E_nodal_flag(stagger)[c], w[2])
       IN  Efield_fp' = [Efield_fp EXCEPT ![1][lev][c][cell] =
               @ + Increment(c, phi[1][phi_level(lev)], outside, beta[1],
                             InvCellSize(lev), cell)]
    /\ done' = [done EXCEPT ![t] = @ + 1]
    /\ UNCHANGED <<pecVars, scConfig, pc, rho, phi, beta, kernel, schedule, outside>>

\* the boundary tables of the passes that are executed cell by cell
CellBoundaries ==
    { << <<"PEC", "PEC">>, <<"PEC", "PEC">> >>,
      << <<"PEC", "PML">>, <<"PML", "PEC">> >>,
      << <<"Periodic", "PEC">>, <<"Periodic", "PEC">> >>,
      << <<"PML", "PML">>, <<"PML", "PEC">> >> }

\* a boundary pass about to start on the level-0 grids, with a gather guard
\* width of one cell
InitCellsPEC ==
    /\ kernel \in {"ApplyPECtoEfield", "ApplyPECtoBfield"}
    /\ \E b \in CellBoundaries :
          /\ field_boundary_lo = b[1]
          /\ field_boundary_hi = b[2]
    /\ lev = 0
    /\ patch_type = "fine"
    /\ split_pml_field = FALSE
    /\ ng_fieldgather = 1
    /\ grid_type \in GridTypes
    /\ nComp = 1
    /\ seed = 1
    /\ Efield = InitField(seed, lev, patch_type, E_ixType(grid_type), nComp)
    /\ Bfield = InitField(seed, lev, patch_type, B_ixType(grid_type), nComp)
    /\ passesE = 0
    /\ passesB = 0
    /\ outside = 0
    /\ IdleSC

\* computeE about to start on the finest level: every process has solved
\* and scaled its potential
InitCellsSC ==
    /\ kernel = "computeE"
    /\ geometry = "3D"
    /\ max_level = MaxLevel
    /\ stagger \in GridTypes
    /\ meanVelocity = <<PhysConst_c, 0 - PhysConst_c, PhysConst_c>>
    /\ solverSeed = 1
    /\ eseed = 1
    /\ pc = [r \in Ranks |-> "scaled"]
    /\ rho = [r \in Ranks |-> "deposited"]
    /\ phi = [r \in Ranks |-> ScaledSolution(r)]
    /\ beta = [r \in Ranks |-> << meanVelocity[1] \div PhysConst_c,
                                  meanVelocity[2] \div PhysConst_c,
                                  meanVelocity[3] \div PhysConst_c >>]
    /\ Efield_fp = [r \in Ranks |-> InitEfield(eseed, stagger, max_level, r)]
    /\ outside \in JunkVals
    /\ field_boundary_lo = <<>> /\ field_boundary_hi = <<>>
    /\ lev = max_level
    /\ patch_type = "fine" /\ split_pml_field = FALSE
    /\ ng_fieldgather = 0 /\ grid_type = "yee" /\ nComp = 1 /\ seed = 1
    /\ Efield = <<>> /\ Bfield = <<>> /\ passesE = 0 /\ passesB = 0

InitCells ==
    /\ schedule \in Schedules
    /\ done = [t \in Threads |-> 0]
    /\ (InitCellsPEC \/ InitCellsSC)

NextCells ==
    \E t \in Threads :
        \/ PECEfieldCell(t)
        \/ PECBfieldCell(t)
        \/ computeECell(t)

SpecCells == InitCells /\ [][NextCells]_vars

(***************************************************************************)
(* Properties of the execution cell by cell.                               *)
(***************************************************************************)
\* the kernel invocations that have run
Executed == UNION { { IndexOf(t, k) : k \in 0..(done[t] - 1) } : t \in Threads }
PassCompleted == \A t \in Threads : done[t] = Share(t)

\* the grids a pass leaves when it is run as a whole on the grids as they
\* were before the pass
EfieldBefore == InitField(seed, lev, patch_type, E_ixType(grid_type), nComp)
BfieldBefore == InitField(seed, lev, patch_type, B_ixType(grid_type), nComp)
Efield_fpBefore == InitEfield(eseed, stagger, max_level, 1)

\* C9: in every execution order and interleaving of the per-cell kernels of
\* one pass (ApplyPECtoEfield, ApplyPECtoBfield, one level of computeE),
\* every kernel invocation, whenever it runs, changes its own cell only and
\* writes there the value the pass run as a whole on the grids from before
\* the pass leaves there, so no invocation has read a value that another
\* one changed; and when the last invocation has run the grids are those of
\* the pass run as a whole, guard corners of two PEC axes included.
C9_CellsIndependent ==
    /\ [][ \A t \in Threads :
              done'[t] # done[t] =>
                  LET w == Invocation(IndexOf(t, done[t]))
                      c == w[1]
                  IN  /\ kernel = "ApplyPECtoEfield" =>
                            LET box == PassBoxes[c]
                                n == w[2] \div BoxSize(box)
                                iv == BoxCell(box, w[2] % BoxSize(box))
                            IN  /\ Efield' = [Efield EXCEPT ![c][n][iv] =
                                                  EfieldAfterPass(EfieldBefore)[c][n][iv]]
                                /\ Bfield' = Bfield
                      /\ kernel = "ApplyPECtoBfield" =>
                            LET box == PassBoxes[c]
                                n == w[2] \div BoxSize(box)
                                iv == BoxCell(box, w[2] % BoxSize(box))
                            IN  /\ Bfield' = [Bfield EXCEPT ![c][n][iv] =
                                                  BfieldAfterPass(BfieldBefore)[c][n][iv]]
                                /\ Efield' = Efield
                      /\ kernel = "computeE" =>
                            LET cell == Cell3(E_nodal_flag(stagger)[c], w[2])
                            IN  /\ Efield_fp' = [Efield_fp EXCEPT ![1][lev][c][cell] =
                                       computeE(Efield_fpBefore, phi[1], beta[1], outside)[lev][c][cell]]
                                /\ phi' = phi ]_vars
    /\ [] ( PassCompleted =>
              /\ Executed = 0..(Total - 1)
              /\ kernel = "ApplyPECtoEfield" => Efield = EfieldAfterPass(EfieldBefore)
              /\ kernel = "ApplyPECtoBfield" => Bfield = BfieldAfterPass(BfieldBefore)
              /\ kernel = "computeE" =>
                    Efield_fp[1][lev] =
                        computeE(Efield_fpBefore, phi[1], beta[1], outside)[lev] )

\* an E pass has run to its end, downwards on two halves, on a
\* domain with PEC on every side, and left in the guard corner of the two
\* low boundaries a value that is neither zero nor what the corner held
C9_Witness ==
    /\ kernel = "ApplyPECtoEfield"
    /\ schedule = [part |-> "blocked", dir |-> "down"]
    /\ PassCompleted
    /\ Executed = 0..(Total - 1)
    /\ field_boundary_lo = <<"PEC", "PEC">> /\ field_boundary_hi = <<"PEC", "PEC">>
    /\ \E c \in Comps :
          LET iv == <<domain_lo(lev, patch_type)[1] - 1, domain_lo(lev, patch_type)[2] - 1>>
          IN  /\ Efield[c][0][iv] # InitVal(seed, c, 0, iv)
              /\ Efield[c][0][iv] # 0

=============================================================================
